---- MODULE Spec2Model ----
(***************************************************************************)
(* MediShield PreCheck: the eligibility contract (MediShieldPreCheck.sol), *)
(* its per-address result store and the decryption of a result handle.     *)
(*                                                                         *)
(* An encrypted value is modelled by its handle (a number, 0 = the         *)
(* uninitialised handle) and, in `cipher`, the plaintext that the          *)
(* coprocessor holds behind the handle.  The FHE operators act on the      *)
(* plaintexts the way the library acts on the ciphertexts.                 *)
(***************************************************************************)
EXTENDS Integers, Sequences, FiniteSets, TLC

\* ------------------------------------------------------------------ bounds
\* Number of successful evaluations (emitted events) explored.
MaxEvals == 2
\* Largest block.timestamp explored.
MaxTime == 2

\* Longest text of the age field explored.
MaxAgeLen == 3
\* Most calls of initialize() awaiting initializeFheInstance() at a time.
MaxInits == 2

\* ------------------------------------------------------- program constants
CATEGORY_ELIGIBLE == 1
CATEGORY_MODERATE == 2
CATEGORY_NOT_ELIGIBLE == 3

\* Externally owned accounts (the two signers of the test) and address(this).
Identities == {"applicant", "deployer"}
Contract == "MediShieldPreCheck"

\* The plaintext domain of euint8.
Uint8 == 0..255
\* The ages submitted to the contract: both sides of each bound of the band
\* (the rule evaluator on its own is run on all of Uint8, see SpecEval).
AgeSamples == {17, 18, 64, 65}
\* The uninitialised euint8 (bytes32(0)).
ZeroHandle == 0

VARIABLES
    lastCategory,     \* _lastCategory: address -> handle
    lastEvaluatedAt,  \* _lastEvaluatedAt: address -> uint256
    cipher,           \* coprocessor: handle -> plaintext of the ciphertext
    acl,              \* persistent ACL: set of <<handle, identity>>
    events,           \* the EligibilityEvaluated log
    now,              \* block.timestamp
    lastCall,         \* the most recent external call and its outcome
    ev,               \* one run of the rule evaluator on plaintext operands
    form,             \* page: age, hasHistory, hasChronic, hasLifestyleRisk
    ui,               \* page: timelineState, messages, busy flags, evaluationResult
    sub,              \* page: the running handleSubmit, its position and locals
    hist,             \* page: the running handleLoadHistory, its position and locals
    wallet,           \* useWallet and WalletModal: connection, modal, connect attempt
    fhe               \* useFhevm: status, instance, error, initialize calls pending

session == <<wallet, fhe>>
page == <<form, ui, sub, hist, wallet, fhe>>
vars == <<lastCategory, lastEvaluatedAt, cipher, acl, events, now, lastCall, ev, form, ui, sub, hist,
          wallet, fhe>>

\* ------------------------------------------------- FHE library operators
FHE_asEuint8(v) == v % 256
FHE_ge(a, b) == a >= b
FHE_le(a, b) == a <= b
FHE_and(a, b) == a /\ b
FHE_or(a, b) == a \/ b
FHE_not(a) == ~a
FHE_select(cond, a, b) == IF cond THEN a ELSE b
FHE_isInitialized(h) == h # ZeroHandle
FHE_toBytes32(h) == h

\* ------------------------------------------------------- rule evaluator
lowerBound_gt(age) == age > FHE_asEuint8(18)
lowerBound(age) == FHE_ge(age, FHE_asEuint8(18))
upperBound(age) == FHE_le(age, FHE_asEuint8(64))
ageInRange(age) == FHE_and(lowerBound(age), upperBound(age))

riskFlags_noLifestyle(hasHistory, hasChronic, riskyLifestyle) ==
    FHE_or(hasHistory, hasChronic)
riskFlags(hasHistory, hasChronic, riskyLifestyle) ==
    FHE_or(FHE_or(hasHistory, hasChronic), riskyLifestyle)

eligible(age, hasHistory, hasChronic, riskyLifestyle) ==
    FHE_and(ageInRange(age), FHE_not(riskFlags(hasHistory, hasChronic, riskyLifestyle)))

moderate_anyAge(age, hasHistory, hasChronic, riskyLifestyle) ==
    riskFlags(hasHistory, hasChronic, riskyLifestyle)
moderate(age, hasHistory, hasChronic, riskyLifestyle) ==
    FHE_and(ageInRange(age), riskFlags(hasHistory, hasChronic, riskyLifestyle))

eligibleLabel == FHE_asEuint8(CATEGORY_ELIGIBLE)
moderateLabel == FHE_asEuint8(CATEGORY_MODERATE)
notEligibleLabel == FHE_asEuint8(CATEGORY_NOT_ELIGIBLE)

category(age, hasHistory, hasChronic, riskyLifestyle) ==
    FHE_select(eligible(age, hasHistory, hasChronic, riskyLifestyle),
               eligibleLabel,
               FHE_select(moderate(age, hasHistory, hasChronic, riskyLifestyle),
                          moderateLabel,
                          notEligibleLabel))

\* --------------------------------------------------------- result store
\* getLastEligibility(account): <<categoryHandle, evaluatedAt>>
getLastEligibility_handleOnly(account) == <<FHE_toBytes32(lastCategory[account]), 0>>
getLastEligibility(account) ==
    LET stored == lastCategory[account]
    IN  IF FHE_isInitialized(stored)
        THEN <<FHE_toBytes32(stored), lastEvaluatedAt[account]>>
        ELSE <<ZeroHandle, 0>>

\* FHE.fromExternal: the proof of an input verifies when it was made for the
\* calling identity (and this contract); `proof` is the identity it is bound to.
fromExternal(proof, sender) == proof = sender

fromExternalAll_skipLifestyle(proofs, sender) ==
    /\ fromExternal(proofs[1], sender)
    /\ fromExternal(proofs[2], sender)
    /\ fromExternal(proofs[3], sender)
fromExternalAll(proofs, sender) ==
    /\ fromExternal(proofs[1], sender)
    /\ fromExternal(proofs[2], sender)
    /\ fromExternal(proofs[3], sender)
    /\ fromExternal(proofs[4], sender)

\* The first of the four fromExternal calls (lines 40-43, in order) whose proof
\* does not verify, 0 when all four verify.
FirstFailing(proofs, sender) ==
    IF \A i \in 1..4 : fromExternal(proofs[i], sender) THEN 0
    ELSE CHOOSE i \in 1..4 : /\ ~fromExternal(proofs[i], sender)
                             /\ \A j \in 1..(i - 1) : fromExternal(proofs[j], sender)

\* The identities whose evaluation produced handle h (from the event log).
Producers(h) == {events[i].applicant : i \in {j \in 1..Len(events) : events[j].categoryHandle = h}}

NoCall ==
    [op |-> "none", caller |-> "none", account |-> "none",
     failedProof |-> 0, status |-> "none",
     handle |-> ZeroHandle, timestamp |-> 0, scope |-> ZeroHandle, plaintext |-> 0]

EvOff == [pc |-> "off", age |-> 0, hasHistory |-> FALSE, hasChronic |-> FALSE,
          riskyLifestyle |-> FALSE, category |-> 0]

\* The page after its first render.
Null == "null"
FormEmpty == [age |-> <<>>, hasHistory |-> Null, hasChronic |-> Null, hasLifestyleRisk |-> Null]
NoResult == [category |-> 0, handle |-> ZeroHandle, timestamp |-> 0]
UiInit ==
    [timelineState |-> "idle", errorMessage |-> Null, successMessage |-> Null,
     isSubmitting |-> FALSE, isFetchingHistory |-> FALSE, evaluationResult |-> NoResult]
NotThrown == [isError |-> FALSE, code |-> "", message |-> ""]
SubOff ==
    [pc |-> "off", numericAge |-> 0, hasHistory |-> FALSE, hasChronic |-> FALSE,
     hasLifestyleRisk |-> FALSE, tx |-> "none", handle |-> ZeroHandle,
     thrown |-> NotThrown]
HistOff == [pc |-> "off", handle |-> ZeroHandle, timestamp |-> 0, thrown |-> NotThrown]
\* useWallet and WalletModal before any connection; useFhevm before initialize.
WalletOff ==
    [isConnected |-> FALSE, showWalletModal |-> FALSE, isConnecting |-> FALSE,
     error |-> Null, attempt |-> "none"]
FheIdle == [status |-> "idle", instance |-> Null, error |-> "", pending |-> 0]
PageInit ==
    /\ form = FormEmpty
    /\ ui = UiInit
    /\ sub = SubOff
    /\ hist = HistOff
    /\ wallet = WalletOff
    /\ fhe = FheIdle

Init ==
    /\ PageInit
    /\ lastCategory = [a \in Identities |-> ZeroHandle]
    /\ lastEvaluatedAt = [a \in Identities |-> 0]
    /\ cipher = <<>>
    /\ acl = {}
    /\ events = <<>>
    /\ now = 1
    /\ lastCall = NoCall
    /\ ev = EvOff

\* _lastCategory[msg.sender] = category
StoreCategory_allSlots(sender, res) == [a \in Identities |-> res]
StoreCategory_firstOnly(sender, res) ==
    IF lastCategory[sender] = ZeroHandle
    THEN [lastCategory EXCEPT ![sender] = res]
    ELSE lastCategory
StoreCategory(sender, res) == [lastCategory EXCEPT ![sender] = res]

\* _lastEvaluatedAt[msg.sender] = block.timestamp
StoreEvaluatedAt_skip(sender, timestamp) == lastEvaluatedAt
StoreEvaluatedAt_allSlots(sender, timestamp) == [a \in Identities |-> timestamp]
StoreEvaluatedAt(sender, timestamp) == [lastEvaluatedAt EXCEPT ![sender] = timestamp]

\* FHE.allow(handle, msg.sender); FHE.allowThis(handle)
Allow_everyone(sender, res) == acl \cup {<<res, a>> : a \in Identities \cup {Contract}}
Allow_thisOnly(sender, res) == acl \cup {<<res, Contract>>}
Allow(sender, res) == acl \cup {<<res, sender>>, <<res, Contract>>}

\* emit EligibilityEvaluated(msg.sender, categoryHandle, block.timestamp)
Emit_twice(sender, res, timestamp) ==
    events \o << [applicant |-> sender, categoryHandle |-> FHE_toBytes32(res),
                  timestamp |-> timestamp],
                 [applicant |-> sender, categoryHandle |-> FHE_toBytes32(res),
                  timestamp |-> timestamp] >>
Emit(sender, res, timestamp) ==
    Append(events, [applicant |-> sender,
                    categoryHandle |-> FHE_toBytes32(res),
                    timestamp |-> timestamp])

\* checkEligibility, all proofs verifying.  `res` is the handle of the computed
\* category: the FHE executor derives a result handle from the operand handles,
\* so fresh inputs give a fresh handle and the sender's own earlier inputs,
\* submitted again, give the handle they gave before.
checkEligibilityOk(sender, age, hasHistory, hasChronic, riskyLifestyle, proofs, res) ==
    LET cat == category(age, hasHistory, hasChronic, riskyLifestyle)
        fresh == res = Len(cipher) + 1
    IN  /\ Len(events) < MaxEvals
        /\ \/ fresh
           \/ /\ res \in 1..Len(cipher)
              /\ Producers(res) = {sender}
              /\ cipher[res] = cat
        /\ cipher' = IF fresh THEN Append(cipher, cat) ELSE cipher
        /\ lastCategory' = StoreCategory(sender, res)
        /\ lastEvaluatedAt' = StoreEvaluatedAt(sender, now)
        /\ acl' = Allow(sender, res)
        /\ events' = Emit(sender, res, now)
        /\ lastCall' = [NoCall EXCEPT !.op = "checkEligibility", !.caller = sender,
                                      !.failedProof = FirstFailing(proofs, sender),
                                      !.status = "ok",
                                      !.handle = FHE_toBytes32(res),
                                      !.timestamp = now]
        /\ UNCHANGED <<now, ev>>

\* checkEligibility with a proof that does not verify: the transaction reverts.
checkEligibilityRevert(sender, proofs) ==
    /\ lastCall' = [NoCall EXCEPT !.op = "checkEligibility", !.caller = sender,
                                  !.failedProof = FirstFailing(proofs, sender),
                                  !.status = "reverted"]
    /\ UNCHANGED <<lastCategory, lastEvaluatedAt, cipher, acl, events, now, ev>>

checkEligibility ==
    \E sender \in Identities, proofs \in [1..4 -> Identities] :
     /\ UNCHANGED page
     /\ IF fromExternalAll(proofs, sender)
        THEN \E age \in AgeSamples, hasHistory, hasChronic, riskyLifestyle \in BOOLEAN,
                res \in 1..MaxEvals :
                  checkEligibilityOk(sender, age, hasHistory, hasChronic,
                                     riskyLifestyle, proofs, res)
        ELSE checkEligibilityRevert(sender, proofs)

\* A call of the view getLastEligibility(account).
GetLastEligibility_touch ==
    \E account \in Identities :
        /\ lastCall' = [NoCall EXCEPT !.op = "getLastEligibility", !.account = account,
                                      !.status = "ok",
                                      !.handle = getLastEligibility(account)[1],
                                      !.timestamp = getLastEligibility(account)[2]]
        /\ lastEvaluatedAt' = [lastEvaluatedAt EXCEPT ![account] = now]
        /\ UNCHANGED <<lastCategory, cipher, acl, events, now, ev, form, ui, sub, hist, wallet, fhe>>
GetLastEligibility ==
    \E account \in Identities :
        /\ lastCall' = [NoCall EXCEPT !.op = "getLastEligibility", !.account = account,
                                      !.status = "ok",
                                      !.handle = getLastEligibility(account)[1],
                                      !.timestamp = getLastEligibility(account)[2]]
        /\ UNCHANGED <<lastCategory, lastEvaluatedAt, cipher, acl, events, now, ev, form, ui, sub, hist, wallet, fhe>>

\* --------------------------------------------------------------- decrypt
\* A DecryptionAuthorization: a statement scoping decrypt rights to
\* (requester, evaluator, handle), signed by `signer`.
Authorizations(handles) ==
    [requester : Identities, evaluator : {Contract}, handle : handles, signer : Identities]

\* The authorization verifies for `handle`: it is scoped to that handle, its
\* requester signed it, and the requester and the evaluator hold rights on it.
AuthorizationVerifies(handle, auth) ==
    /\ auth.handle = handle
    /\ auth.signer = auth.requester
    /\ <<handle, auth.requester>> \in acl
    /\ <<handle, auth.evaluator>> \in acl

\* decrypt(handle, authorization): the plaintext or AuthorizationError.
decrypt(handle, auth) ==
    IF AuthorizationVerifies(handle, auth)
    THEN [status |-> "ok", plaintext |-> cipher[handle]]
    ELSE [status |-> "AuthorizationError", plaintext |-> 0]

Decrypt ==
    \E handle \in 1..Len(cipher) :
        \E auth \in Authorizations(1..Len(cipher)) :
            /\ lastCall' = [NoCall EXCEPT !.op = "decrypt", !.caller = auth.requester,
                                          !.account = auth.signer,
                                          !.handle = handle, !.scope = auth.handle,
                                          !.status = decrypt(handle, auth).status,
                                          !.plaintext = decrypt(handle, auth).plaintext]
            /\ UNCHANGED <<lastCategory, lastEvaluatedAt, cipher, acl, events, now, ev, form, ui, sub, hist, wallet, fhe>>

\* A later block.
Tick ==
    /\ now < MaxTime
    /\ now' = now + 1
    /\ UNCHANGED <<lastCategory, lastEvaluatedAt, cipher, acl, events, lastCall, ev, form, ui, sub, hist, wallet, fhe>>

Next ==
    \/ checkEligibility
    \/ GetLastEligibility
    \/ Tick

Spec == Init /\ [][Next]_vars

\* ----------------------------- the contract and the decryption of its results
NextCodec ==
    \/ checkEligibility
    \/ Decrypt

SpecCodec == Init /\ [][NextCodec]_vars

\* ------------------------------------------- the rule evaluator on its own
InitEval ==
    /\ PageInit
    /\ lastCategory = [a \in Identities |-> ZeroHandle]
    /\ lastEvaluatedAt = [a \in Identities |-> 0]
    /\ cipher = <<>>
    /\ acl = {}
    /\ events = <<>>
    /\ now = 1
    /\ lastCall = NoCall
    /\ ev \in [pc : {"start"}, age : Uint8, hasHistory : BOOLEAN, hasChronic : BOOLEAN,
               riskyLifestyle : BOOLEAN, category : {0}]

Evaluate ==
    /\ ev.pc = "start"
    /\ ev' = [ev EXCEPT !.pc = "done",
                        !.category = category(ev.age, ev.hasHistory, ev.hasChronic,
                                              ev.riskyLifestyle)]
    /\ UNCHANGED <<lastCategory, lastEvaluatedAt, cipher, acl, events, now, lastCall, form, ui, sub, hist, wallet, fhe>>

NextEval == Evaluate

SpecEval == InitEval /\ [][NextEval]_vars

\* ====================================================== the page (page.tsx)
\* ------------------------------------------------------- the age field text
\* A text is a sequence of characters; these are the characters explored.
Digits == {"0", "1", "5"}
Chars == Digits \cup {"e", ".", "-"}
Texts(n) == UNION {[1..k -> Chars] : k \in 0..n}

DigitValue(c) == CASE c = "0" -> 0 [] c = "1" -> 1 [] c = "5" -> 5 [] OTHER -> 0

AllDigits(t) == Len(t) > 0 /\ \A i \in 1..Len(t) : t[i] \in Digits

RECURSIVE DigitsValue(_)
DigitsValue(t) ==
    IF Len(t) = 0 THEN 0
    ELSE 10 * DigitsValue(SubSeq(t, 1, Len(t) - 1)) + DigitValue(t[Len(t)])

\* Position of the first occurrence of c in t, 0 when there is none.
IndexOf(t, c) ==
    IF \E i \in 1..Len(t) : t[i] = c
    THEN CHOOSE i \in 1..Len(t) : t[i] = c /\ \A j \in 1..(i - 1) : t[j] # c
    ELSE 0

Includes(t, c) == IndexOf(t, c) # 0
StartsWith(t, c) == Len(t) > 0 /\ t[1] = c
Unsigned(t) == IF StartsWith(t, "-") THEN SubSeq(t, 2, Len(t)) ELSE t

\* The parts of a number text: mantissa (integer and fraction digits) and exponent.
Mantissa(t) == IF Includes(t, "e") THEN SubSeq(t, 1, IndexOf(t, "e") - 1) ELSE t
Exponent(t) == IF Includes(t, "e") THEN SubSeq(t, IndexOf(t, "e") + 1, Len(t)) ELSE <<>>
IntPart(t) ==
    LET m == Unsigned(Mantissa(t))
    IN  IF Includes(m, ".") THEN SubSeq(m, 1, IndexOf(m, ".") - 1) ELSE m
FracPart(t) ==
    LET m == Unsigned(Mantissa(t))
    IN  IF Includes(m, ".") THEN SubSeq(m, IndexOf(m, ".") + 1, Len(m)) ELSE <<>>

\* <input type="number">: the field holds the empty text or a valid
\* floating-point number ("-"? digits ("." digits)? | "." digits, then an
\* optional "e" "-"? digits); anything else typed leaves it empty.
ValidFloat(t) ==
    LET m == Unsigned(Mantissa(t))
    IN  /\ IF Includes(m, ".")
           THEN AllDigits(FracPart(t)) /\ (IntPart(t) = <<>> \/ AllDigits(IntPart(t)))
           ELSE AllDigits(m)
        /\ Includes(t, "e") => AllDigits(Unsigned(Exponent(t)))

FieldTexts(n) == {t \in Texts(n) : t = <<>> \/ ValidFloat(t)}

Pow10(k) == CASE k = 0 -> 1 [] k = 1 -> 10 [] k = 2 -> 100 [] k = 3 -> 1000
              [] k = 4 -> 10000 [] OTHER -> 100000

\* The number a field text denotes is a whole number in lo..hi.
\* (mantissa digits M, f fraction digits, exponent E: M * 10^(E - f))
WholeInRange(t, lo, hi) ==
    LET M == DigitsValue(IntPart(t) \o FracPart(t))
        E == DigitsValue(Unsigned(Exponent(t)))
        k == (IF StartsWith(Exponent(t), "-") THEN 0 - E ELSE E) - Len(FracPart(t))
    IN  /\ ValidFloat(t)
        /\ ~StartsWith(t, "-")
        /\ M > 0
        /\ IF k >= 0
           THEN k <= 4 /\ M * Pow10(k) >= lo /\ M * Pow10(k) <= hi
           ELSE /\ 0 - k <= 4
                /\ M % Pow10(0 - k) = 0
                /\ M \div Pow10(0 - k) >= lo /\ M \div Pow10(0 - k) <= hi

\* Constraint validation of the age field (min=1 max=150 step=1, not required):
\* the form raises no submit event while the field is invalid.
AgeFieldValid_unconstrained(t) == t = <<>> \/ ValidFloat(t)
AgeFieldValid(t) == t = <<>> \/ WholeInRange(t, 1, 150)

\* parseInt(t, 10): the leading digits after an optional sign; NaN without one.
NaN == -1000000
LeadingDigits(t) ==
    LET n == IF \E i \in 1..Len(t) : t[i] \notin Digits
             THEN (CHOOSE i \in 1..Len(t) :
                      t[i] \notin Digits /\ \A j \in 1..(i - 1) : t[j] \in Digits) - 1
             ELSE Len(t)
    IN  SubSeq(t, 1, n)
parseInt(t) ==
    LET d == LeadingDigits(Unsigned(t))
    IN  IF d = <<>> THEN NaN
        ELSE IF StartsWith(t, "-") THEN 0 - DigitsValue(d) ELSE DigitsValue(d)

\* ------------------------------------------------------------ page handlers
Applicant == "applicant"

\* The texts typed into the age field in the workflow specification.
FormAges == {<<>>, <<"5", "0">>}
Flags == {"true", "false"}
\* The Yes/No buttons clicked in the workflow specification.
FlagClicks ==
    {<<"hasHistory", "true">>, <<"hasHistory", "false">>,
     <<"hasChronic", "false">>, <<"hasLifestyleRisk", "false">>}

RECURSIVE trim(_)
trim(t) ==
    IF StartsWith(t, " ") THEN trim(SubSeq(t, 2, Len(t)))
    ELSE IF Len(t) > 0 /\ t[Len(t)] = " " THEN trim(SubSeq(t, 1, Len(t) - 1))
    ELSE t

resetTimeline(u) == [u EXCEPT !.timelineState = "idle"]
resetResults_keepResult(u) == resetTimeline([u EXCEPT !.successMessage = Null])
resetResults(u) ==
    resetTimeline([u EXCEPT !.evaluationResult = NoResult, !.successMessage = Null])

\* handleSubmit, validation of the plaintext inputs: the error or Null.
numericAge(f) == parseInt(trim(f.age))
validate_allUnset(f) ==
    LET ageStr == trim(f.age)
    IN  IF ageStr = <<>> THEN "Please enter your age."
        ELSE IF Includes(ageStr, ".") THEN "Age must be a whole number (no decimals)."
        ELSE IF Len(ageStr) > 1 /\ StartsWith(ageStr, "0") THEN "Please enter a valid age."
        ELSE IF Includes(ageStr, "-") THEN "Please enter a valid age."
        ELSE IF numericAge(f) = NaN THEN "Please enter a valid age."
        ELSE IF numericAge(f) <= 0 THEN "Age must be greater than 0."
        ELSE IF numericAge(f) > 150 THEN "Age must be 150 or less."
        ELSE IF f.hasHistory = Null /\ f.hasChronic = Null /\ f.hasLifestyleRisk = Null
             THEN "Select Yes or No for each health question."
        ELSE Null
validate(f) ==
    LET ageStr == trim(f.age)
    IN  IF ageStr = <<>> THEN "Please enter your age."
        ELSE IF Includes(ageStr, ".") THEN "Age must be a whole number (no decimals)."
        ELSE IF Len(ageStr) > 1 /\ StartsWith(ageStr, "0") THEN "Please enter a valid age."
        ELSE IF Includes(ageStr, "-") THEN "Please enter a valid age."
        ELSE IF numericAge(f) = NaN THEN "Please enter a valid age."
        ELSE IF numericAge(f) <= 0 THEN "Age must be greater than 0."
        ELSE IF numericAge(f) > 150 THEN "Age must be 150 or less."
        ELSE IF f.hasHistory = Null \/ f.hasChronic = Null \/ f.hasLifestyleRisk = Null
             THEN "Select Yes or No for each health question."
        ELSE Null

\* The values thrown at an await: an Error (ethers wraps a refusal of the
\* wallet as ACTION_REJECTED "user rejected action"), the wallet's own refusal
\* (code 4001), or a value that is no Error and has no code and no message.
ErrRejected == [isError |-> TRUE, code |-> "ACTION_REJECTED", message |-> "user rejected action"]
Err4001 == [isError |-> FALSE, code |-> "4001", message |-> "User rejected the request."]
ErrNetwork == [isError |-> TRUE, code |-> "NETWORK_ERROR", message |-> "network error"]
ErrValue == [isError |-> FALSE, code |-> Null, message |-> Null]
ErrReverted == [isError |-> TRUE, code |-> "CALL_EXCEPTION", message |-> "transaction execution reverted"]
ErrAuthorization == [isError |-> TRUE, code |-> Null, message |-> "AuthorizationError"]
\* getSigner asks the wallet for the account; the encryption can fail.
EncryptErrors == {ErrRejected, ErrNetwork, ErrValue}
\* staticCall is a read: the node is unreachable or the call reverts.
StaticCallErrors == {ErrNetwork, ErrReverted}
\* Sending asks the signer for the signature of the transaction.
SendErrors == {ErrRejected, Err4001, ErrNetwork}
\* decrypt asks the signer to sign the authorization and calls the key service.
DecryptErrors == {ErrRejected, ErrNetwork}
QueryErrors == {ErrNetwork, ErrValue}

includesUserRejected(message) == message = "user rejected action"

\* The state of useDecrypt: a decrypt call is running.
isDecrypting == sub.pc = "decrypt" \/ hist.pc = "decrypt"

walletReady == wallet.isConnected
submitDisabled == ui.isSubmitting \/ isDecrypting \/ ~walletReady \/ fhe.status # "ready"
loadHistoryDisabled == ~walletReady \/ ui.isFetchingHistory

chain == <<lastCategory, lastEvaluatedAt, cipher, acl, events, now, lastCall, ev>>

\* The age field's onChange.
SetAge ==
    \E newAge \in FormAges :
        /\ form' = [form EXCEPT !.age = newAge]
        /\ ui' = IF /\ newAge # <<>> /\ ~Includes(newAge, ".") /\ ~Includes(newAge, "-")
                    /\ ~(Len(newAge) > 1 /\ StartsWith(newAge, "0"))
                    /\ parseInt(newAge) # NaN /\ parseInt(newAge) > 0 /\ parseInt(newAge) <= 150
                 THEN [resetResults(ui) EXCEPT !.errorMessage = Null]
                 ELSE resetResults(ui)
        /\ UNCHANGED <<chain, session, sub, hist>>

\* The onClick of a Yes/No button of one of the three health questions.
SetFlag ==
    \E click \in FlagClicks :
        /\ form' = [form EXCEPT ![click[1]] = click[2]]
        /\ ui' = resetResults(ui)
        /\ UNCHANGED <<chain, session, sub, hist>>

\* handleSubmit up to its first await: the submit event of the form, raised
\* while the submit button is enabled and the age field is valid.
HandleSubmit_keepMessages ==
    /\ ~submitDisabled
    /\ AgeFieldValid(form.age)
    /\ IF validate(form) # Null
       THEN /\ ui' = [resetTimeline(ui) EXCEPT !.errorMessage = validate(form),
                                               !.successMessage = Null]
            /\ sub' = SubOff
       ELSE /\ ui' = [ui EXCEPT !.isSubmitting = TRUE, !.timelineState = "encrypt"]
            /\ sub' = [SubOff EXCEPT !.pc = "encrypt",
                                     !.numericAge = numericAge(form),
                                     !.hasHistory = form.hasHistory = "true",
                                     !.hasChronic = form.hasChronic = "true",
                                     !.hasLifestyleRisk = form.hasLifestyleRisk = "true"]
    /\ UNCHANGED <<chain, session, form, hist>>
HandleSubmit ==
    /\ ~submitDisabled
    /\ AgeFieldValid(form.age)
    /\ IF validate(form) # Null
       THEN /\ ui' = [resetTimeline(ui) EXCEPT !.errorMessage = validate(form),
                                               !.successMessage = Null]
            /\ sub' = SubOff
       ELSE /\ ui' = [ui EXCEPT !.errorMessage = Null, !.successMessage = Null,
                                !.isSubmitting = TRUE, !.timelineState = "encrypt"]
            /\ sub' = [SubOff EXCEPT !.pc = "encrypt",
                                     !.numericAge = numericAge(form),
                                     !.hasHistory = form.hasHistory = "true",
                                     !.hasChronic = form.hasChronic = "true",
                                     !.hasLifestyleRisk = form.hasLifestyleRisk = "true"]
    /\ UNCHANGED <<chain, session, form, hist>>

\* handleSubmit, catch and finally.
catch_stillSubmitting(u, err) ==
    LET message == IF err.isError THEN err.message ELSE Null
    IN  [resetTimeline(u) EXCEPT
            !.errorMessage = IF message # Null /\ includesUserRejected(message)
                             THEN "Transaction rejected. No data was sent."
                             ELSE IF message # Null THEN message
                             ELSE "Something went wrong. Please try again."]
catch(u, err) ==
    LET message == IF err.isError THEN err.message ELSE Null
    IN  [resetTimeline(u) EXCEPT
            !.errorMessage = IF message # Null /\ includesUserRejected(message)
                             THEN "Transaction rejected. No data was sent."
                             ELSE IF message # Null THEN message
                             ELSE "Something went wrong. Please try again.",
            !.isSubmitting = FALSE]

\* handleSubmit, the catch around staticCall and the sending of the transaction.
signCatch_noReset(u, err) ==
    IF err.code = "4001" \/ err.code = "ACTION_REJECTED"
          \/ (err.message # Null /\ includesUserRejected(err.message))
    THEN [u EXCEPT
             !.errorMessage = "Transaction signature rejected. No data was sent.",
             !.isSubmitting = FALSE]
    ELSE catch(u, err)
signCatch(u, err) ==
    IF err.code = "4001" \/ err.code = "ACTION_REJECTED"
          \/ (err.message # Null /\ includesUserRejected(err.message))
    THEN [resetTimeline(u) EXCEPT
             !.errorMessage = "Transaction signature rejected. No data was sent.",
             !.isSubmitting = FALSE]
    ELSE catch(u, err)

\* getSigner, getAddress, encryptAge and encryptBoolean have resolved.
Encrypted ==
    /\ sub.pc = "encrypt"
    /\ ui' = [ui EXCEPT !.timelineState = "submit"]
    /\ sub' = [sub EXCEPT !.pc = "staticCall"]
    /\ UNCHANGED <<chain, session, form, hist>>

EncryptThrows ==
    \E err \in EncryptErrors :
        /\ sub.pc = "encrypt"
        /\ ui' = catch(ui, err)
        /\ sub' = [SubOff EXCEPT !.thrown = err]
        /\ UNCHANGED <<chain, session, form, hist>>

\* checkEligibility.staticCall has resolved: `handle` is the handle the
\* transaction will store, known to the model when the transaction is mined.
StaticCalled ==
    /\ sub.pc = "staticCall"
    /\ sub' = [sub EXCEPT !.pc = "send"]
    /\ UNCHANGED <<chain, session, form, ui, hist>>

StaticCallThrows ==
    \E err \in StaticCallErrors :
        /\ sub.pc = "staticCall"
        /\ ui' = signCatch(ui, err)
        /\ sub' = [SubOff EXCEPT !.thrown = err]
        /\ UNCHANGED <<chain, session, form, hist>>

\* The signer has signed and the transaction is sent.
Sent ==
    /\ sub.pc = "send"
    /\ ui' = [ui EXCEPT !.timelineState = "process"]
    /\ sub' = [sub EXCEPT !.pc = "wait", !.tx = "pending"]
    /\ UNCHANGED <<chain, session, form, hist>>

SendThrows ==
    \E err \in SendErrors :
        /\ sub.pc = "send"
        /\ ui' = signCatch(ui, err)
        /\ sub' = [SubOff EXCEPT !.thrown = err]
        /\ UNCHANGED <<chain, session, form, hist>>

\* The pending transaction is mined: checkEligibility runs on the inputs the
\* handler encrypted for the connected account.
Mined ==
    /\ sub.tx = "pending"
    /\ checkEligibilityOk(Applicant, sub.numericAge, sub.hasHistory, sub.hasChronic,
                          sub.hasLifestyleRisk, [i \in 1..4 |-> Applicant], Len(cipher) + 1)
    /\ sub' = [sub EXCEPT !.tx = "mined", !.handle = Len(cipher) + 1]
    /\ UNCHANGED <<session, form, ui, hist>>

\* The pending transaction reverts.
Reverted ==
    /\ sub.tx = "pending"
    /\ sub' = [sub EXCEPT !.tx = "reverted"]
    /\ UNCHANGED <<chain, session, form, ui, hist>>

Waited_noReceipt ==
    /\ sub.pc = "wait"
    /\ ui' = [ui EXCEPT !.timelineState = "decrypt"]
    /\ sub' = [sub EXCEPT !.pc = "decrypt"]
    /\ UNCHANGED <<chain, session, form, hist>>
\* tx.wait() has resolved with the receipt.
Waited ==
    /\ sub.pc = "wait" /\ sub.tx = "mined"
    /\ ui' = [ui EXCEPT !.timelineState = "decrypt"]
    /\ sub' = [sub EXCEPT !.pc = "decrypt"]
    /\ UNCHANGED <<chain, session, form, hist>>

WaitThrows ==
    /\ sub.pc = "wait" /\ sub.tx = "reverted"
    /\ ui' = catch(ui, ErrReverted)
    /\ sub' = [SubOff EXCEPT !.thrown = ErrReverted]
    /\ UNCHANGED <<chain, session, form, hist>>

\* The authorization the page signs with the connected account for `handle`.
ownAuthorization(handle) ==
    [requester |-> Applicant, evaluator |-> Contract, handle |-> handle, signer |-> Applicant]

\* decrypt has resolved with the category.
Decrypted ==
    /\ sub.pc = "decrypt"
    /\ decrypt(sub.handle, ownAuthorization(sub.handle)).status = "ok"
    /\ ui' = [ui EXCEPT !.evaluationResult =
                            [category |-> decrypt(sub.handle, ownAuthorization(sub.handle)).plaintext,
                             handle |-> sub.handle,
                             timestamp |-> now],
                        !.timelineState = "complete",
                        !.successMessage = "Eligibility result decrypted securely. Details below.",
                        !.isSubmitting = FALSE]
    /\ sub' = SubOff
    /\ UNCHANGED <<chain, session, form, hist>>

DecryptThrows ==
    \E err \in DecryptErrors \cup {ErrAuthorization} :
        /\ sub.pc = "decrypt"
        /\ err = ErrAuthorization
              <=> decrypt(sub.handle, ownAuthorization(sub.handle)).status # "ok"
        /\ ui' = catch(ui, err)
        /\ sub' = [SubOff EXCEPT !.thrown = err]
        /\ UNCHANGED <<chain, session, form, hist>>

\* handleLoadHistory up to its first await: a click on the enabled button.
HandleLoadHistory ==
    /\ ~loadHistoryDisabled
    /\ ui' = [resetTimeline(ui) EXCEPT !.isFetchingHistory = TRUE, !.errorMessage = Null,
                                       !.successMessage = Null, !.evaluationResult = NoResult]
    /\ form' = FormEmpty
    /\ hist' = [HistOff EXCEPT !.pc = "query"]
    /\ UNCHANGED <<chain, session, sub>>

\* getSigner and getLastEligibility(address) have resolved.
HistoryQueried ==
    /\ hist.pc = "query"
    /\ IF getLastEligibility(Applicant)[1] = ZeroHandle
       THEN /\ ui' = [ui EXCEPT !.errorMessage = "No encrypted result stored for this wallet yet.",
                                !.isFetchingHistory = FALSE]
            /\ hist' = HistOff
       ELSE /\ ui' = ui
            /\ hist' = [hist EXCEPT !.pc = "decrypt",
                                    !.handle = getLastEligibility(Applicant)[1],
                                    !.timestamp = getLastEligibility(Applicant)[2]]
    /\ UNCHANGED <<chain, session, form, sub>>

historyCatch(u, err) ==
    [u EXCEPT !.errorMessage = IF err.isError THEN err.message
                               ELSE "Unable to load previous result.",
              !.isFetchingHistory = FALSE]

HistoryQueryThrows ==
    \E err \in QueryErrors :
        /\ hist.pc = "query"
        /\ ui' = historyCatch(ui, err)
        /\ hist' = [HistOff EXCEPT !.thrown = err]
        /\ UNCHANGED <<chain, session, form, sub>>

HistoryDecrypted ==
    /\ hist.pc = "decrypt"
    /\ decrypt(hist.handle, ownAuthorization(hist.handle)).status = "ok"
    /\ ui' = [ui EXCEPT !.evaluationResult =
                            [category |-> decrypt(hist.handle, ownAuthorization(hist.handle)).plaintext,
                             handle |-> hist.handle,
                             timestamp |-> hist.timestamp],
                        !.timelineState = "complete",
                        !.successMessage = "Loaded your most recent encrypted decision from chain.",
                        !.isFetchingHistory = FALSE]
    /\ hist' = HistOff
    /\ UNCHANGED <<chain, session, form, sub>>

HistoryDecryptThrows ==
    \E err \in DecryptErrors \cup {ErrAuthorization} :
        /\ hist.pc = "decrypt"
        /\ err = ErrAuthorization
              <=> decrypt(hist.handle, ownAuthorization(hist.handle)).status # "ok"
        /\ ui' = historyCatch(ui, err)
        /\ hist' = [HistOff EXCEPT !.thrown = err]
        /\ UNCHANGED <<chain, session, form, sub>>

NextUI ==
    \/ SetAge
    \/ SetFlag
    \/ HandleSubmit
    \/ Encrypted
    \/ EncryptThrows
    \/ StaticCalled
    \/ StaticCallThrows
    \/ Sent
    \/ SendThrows
    \/ Mined
    \/ Reverted
    \/ Waited
    \/ WaitThrows
    \/ Decrypted
    \/ DecryptThrows
    \/ HandleLoadHistory
    \/ HistoryQueried
    \/ HistoryQueryThrows
    \/ HistoryDecrypted
    \/ HistoryDecryptThrows

\* The page once the wallet is connected and useFhevm is ready.
WalletConnected == [WalletOff EXCEPT !.isConnected = TRUE]
FheReady == [FheIdle EXCEPT !.status = "ready", !.instance = "instance"]
InitUI ==
    /\ lastCategory = [a \in Identities |-> ZeroHandle]
    /\ lastEvaluatedAt = [a \in Identities |-> 0]
    /\ cipher = <<>>
    /\ acl = {}
    /\ events = <<>>
    /\ now = 1
    /\ lastCall = NoCall
    /\ ev = EvOff
    /\ form = FormEmpty
    /\ ui = UiInit
    /\ sub = SubOff
    /\ hist = HistOff
    /\ wallet = WalletConnected
    /\ fhe = FheReady

SpecUI == InitUI /\ [][NextUI]_vars

\* The page under the assumption that every awaited external call settles:
\* each await of handleSubmit and handleLoadHistory eventually resolves or
\* rejects, and a sent transaction is eventually mined or reverted.
AwaitsSettle ==
    /\ WF_vars(Encrypted \/ EncryptThrows)
    /\ WF_vars(StaticCalled \/ StaticCallThrows)
    /\ WF_vars(Sent \/ SendThrows)
    /\ WF_vars(Mined \/ Reverted)
    /\ WF_vars(Waited \/ WaitThrows)
    /\ WF_vars(Decrypted \/ DecryptThrows)
    /\ WF_vars(HistoryQueried \/ HistoryQueryThrows)
    /\ WF_vars(HistoryDecrypted \/ HistoryDecryptThrows)

SpecUIFair == SpecUI /\ AwaitsSettle

\* --------------------------------------- the wallet, the modal and useFhevm
\* The wallets of the modal that are installed, and WalletConnect, whose
\* connect() always throws.
WalletOptions == {"metamask", "walletconnect"}

\* handleConnect: the "Connect wallet" button of the page.
HandleConnect ==
    /\ ~walletReady /\ wallet.attempt = "none"
    /\ ~wallet.showWalletModal
    /\ wallet' = [wallet EXCEPT !.showWalletModal = TRUE]
    /\ UNCHANGED <<chain, form, ui, sub, hist, fhe>>

\* onClose by the close button or the backdrop of the modal.
CloseModal ==
    /\ wallet.showWalletModal
    /\ wallet' = [wallet EXCEPT !.showWalletModal = FALSE]
    /\ UNCHANGED <<chain, form, ui, sub, hist, fhe>>

\* handleWalletClick up to its await.
HandleWalletClick ==
    \E option \in WalletOptions :
        /\ wallet.showWalletModal /\ ~wallet.isConnecting
        /\ wallet' = [wallet EXCEPT !.isConnecting = TRUE, !.error = Null, !.attempt = option]
        /\ UNCHANGED <<chain, form, ui, sub, hist, fhe>>

\* connectWallet() resolved: handleWalletConnect returns, wallet.connect()
\* resolves, handleWalletClick closes the modal; the effect on [address,
\* chainId] clears the messages.
ConnectResolves ==
    /\ wallet.attempt = "metamask"
    /\ wallet' = [wallet EXCEPT !.isConnected = TRUE, !.showWalletModal = FALSE,
                                !.isConnecting = FALSE, !.attempt = "none"]
    /\ ui' = [ui EXCEPT !.errorMessage = Null, !.successMessage = Null]
    /\ UNCHANGED <<chain, form, sub, hist, fhe>>

\* connectWallet() rejected: handleWalletConnect catches the error and sets the
\* page's message, so wallet.connect() resolves and handleWalletClick goes on.
handleWalletClickDone(w, failed) ==
    IF failed
    THEN [w EXCEPT !.error = "WalletConnect integration coming soon",
                   !.isConnecting = FALSE, !.attempt = "none"]
    ELSE [w EXCEPT !.showWalletModal = FALSE, !.isConnecting = FALSE, !.attempt = "none"]

ConnectFails ==
    \E err \in {ErrRejected, ErrValue} :
        /\ wallet.attempt = "metamask"
        /\ ui' = [ui EXCEPT !.errorMessage = IF err.isError THEN err.message
                                             ELSE "Unable to connect wallet."]
        /\ wallet' = handleWalletClickDone(wallet, FALSE)
        /\ UNCHANGED <<chain, form, sub, hist, fhe>>

\* wallet.connect() itself threw: the modal shows the error and stays open.
ConnectThrows ==
    /\ wallet.attempt = "walletconnect"
    /\ wallet' = handleWalletClickDone(wallet, TRUE)
    /\ UNCHANGED <<chain, form, ui, sub, hist, fhe>>

\* disconnectWallet(); the effect on [address, chainId] clears the messages.
Disconnect ==
    /\ walletReady
    /\ wallet' = [wallet EXCEPT !.isConnected = FALSE]
    /\ ui' = [ui EXCEPT !.errorMessage = Null, !.successMessage = Null]
    /\ UNCHANGED <<chain, form, sub, hist, fhe>>

\* useFhevm.
initialize(h) == [h EXCEPT !.status = "loading", !.error = "", !.pending = h.pending + 1]
reset(h) == [h EXCEPT !.instance = Null, !.status = "idle", !.error = ""]
isInitialized == fhe.status = "ready"

\* The effect that initializes FHEVM once the wallet is ready.
InitializeEffect ==
    /\ walletReady /\ fhe.status = "idle"
    /\ fhe.pending < MaxInits
    /\ fhe' = initialize(fhe)
    /\ UNCHANGED <<chain, form, ui, sub, hist, wallet>>

\* The effect that resets FHEVM when the wallet disconnects.
ResetEffect ==
    /\ ~walletReady /\ fhe.status # "idle"
    /\ fhe' = reset(fhe)
    /\ ui' = [ui EXCEPT !.evaluationResult = NoResult]
    /\ UNCHANGED <<chain, form, sub, hist, wallet>>

\* initializeFheInstance() of a pending initialize resolved.
InitResolves ==
    /\ fhe.pending > 0
    /\ fhe' = [fhe EXCEPT !.instance = "instance", !.status = "ready",
                          !.pending = fhe.pending - 1]
    /\ UNCHANGED <<chain, form, ui, sub, hist, wallet>>

\* initializeFheInstance() of a pending initialize rejected.
InitRejects ==
    \E err \in {ErrNetwork, ErrValue} :
        /\ fhe.pending > 0
        /\ fhe' = [fhe EXCEPT !.error = IF err.isError THEN err.message ELSE "Unknown error",
                              !.status = "error", !.pending = fhe.pending - 1]
        /\ UNCHANGED <<chain, form, ui, sub, hist, wallet>>

\* A session: connecting, FHEVM, one form submitted, disconnecting.
FormFilled ==
    [age |-> <<"5", "0">>, hasHistory |-> "true", hasChronic |-> "false",
     hasLifestyleRisk |-> "false"]
InitSession ==
    /\ lastCategory = [a \in Identities |-> ZeroHandle]
    /\ lastEvaluatedAt = [a \in Identities |-> 0]
    /\ cipher = <<>>
    /\ acl = {}
    /\ events = <<>>
    /\ now = 1
    /\ lastCall = NoCall
    /\ ev = EvOff
    /\ form = FormFilled
    /\ ui = UiInit
    /\ sub = SubOff
    /\ hist = HistOff
    /\ wallet = WalletOff
    /\ fhe = FheIdle

NextSession ==
    \/ HandleConnect
    \/ CloseModal
    \/ HandleWalletClick
    \/ ConnectResolves
    \/ ConnectFails
    \/ ConnectThrows
    \/ Disconnect
    \/ InitializeEffect
    \/ ResetEffect
    \/ InitResolves
    \/ InitRejects
    \/ HandleSubmit
    \/ Encrypted
    \/ EncryptThrows
    \/ StaticCalled
    \/ StaticCallThrows
    \/ Sent
    \/ SendThrows
    \/ Mined
    \/ Reverted
    \/ Waited
    \/ WaitThrows
    \/ Decrypted
    \/ DecryptThrows

SpecSession == InitSession /\ [][NextSession]_vars

\* ------------------------------------- the validation of handleSubmit on its own
InitForm ==
    /\ lastCategory = [a \in Identities |-> ZeroHandle]
    /\ lastEvaluatedAt = [a \in Identities |-> 0]
    /\ cipher = <<>>
    /\ acl = {}
    /\ events = <<>>
    /\ now = 1
    /\ lastCall = NoCall
    /\ ev = EvOff
    /\ form \in [age : FieldTexts(MaxAgeLen), hasHistory : Flags \cup {Null},
                 hasChronic : Flags \cup {Null}, hasLifestyleRisk : Flags \cup {Null}]
    /\ ui = UiInit
    /\ sub = SubOff
    /\ hist = HistOff
    /\ wallet = WalletConnected
    /\ fhe = FheReady

NextForm == HandleSubmit

SpecForm == InitForm /\ [][NextForm]_vars

\* =================================================================== claims

\* C1: for every age 18..64 (both bounds included) with the three risk flags
\* false, the evaluated category is 1 (Eligible).
C1_EligibleInBand ==
    (/\ ev.pc = "done"
     /\ ev.age >= 18 /\ ev.age <= 64
     /\ ~ev.hasHistory /\ ~ev.hasChronic /\ ~ev.riskyLifestyle)
        => ev.category = 1

C1_Witness ==
    /\ ev.pc = "done" /\ ev.age = 18
    /\ ~ev.hasHistory /\ ~ev.hasChronic /\ ~ev.riskyLifestyle
    /\ ev.category = 1

\* C2: for every age 18..64 and every risk triple with at least one flag
\* true, the evaluated category is 2 (Moderate).
C2_ModerateInBand ==
    (/\ ev.pc = "done"
     /\ ev.age >= 18 /\ ev.age <= 64
     /\ (ev.hasHistory \/ ev.hasChronic \/ ev.riskyLifestyle))
        => ev.category = 2

C2_Witness ==
    /\ ev.pc = "done" /\ ev.age = 64
    /\ ~ev.hasHistory /\ ~ev.hasChronic /\ ev.riskyLifestyle
    /\ ev.category = 2

\* C3: for every 8-bit age below 18 or above 64 and every one of the 8 risk
\* triples, the evaluated category is 3 (Not Eligible).
C3_NotEligibleOutOfBand ==
    (/\ ev.pc = "done"
     /\ (ev.age < 18 \/ ev.age > 64))
        => ev.category = 3

C3_Witness ==
    /\ ev.pc = "done" /\ ev.age = 65
    /\ ev.hasHistory /\ ev.hasChronic /\ ev.riskyLifestyle
    /\ ev.category = 3

\* The identities with at least one successful evaluation.
Evaluated == {events[i].applicant : i \in 1..Len(events)}

\* The <<handle, timestamp>> of the most recent evaluation of `id`, the zero
\* pair when there is none.
MostRecent(id) ==
    LET mine == {i \in 1..Len(events) : events[i].applicant = id}
    IN  IF mine = {} THEN <<ZeroHandle, 0>>
        ELSE LET last == CHOOSE i \in mine : \A j \in mine : j <= i
             IN  <<events[last].categoryHandle, events[last].timestamp>>

\* C4: after a successful checkEligibility by caller c, getLastEligibility(c)
\* is the handle that call returned with the non-zero timestamp of that
\* evaluation.
C4_StoredIsReturned ==
    (lastCall.op = "checkEligibility" /\ lastCall.status = "ok")
        => /\ getLastEligibility(lastCall.caller) = <<lastCall.handle, lastCall.timestamp>>
           /\ lastCall.handle # ZeroHandle
           /\ lastCall.timestamp # 0

C4_Witness ==
    /\ lastCall.op = "checkEligibility" /\ lastCall.status = "ok"
    /\ lastCall.caller = "applicant"
    /\ lastCall.timestamp = 2
    /\ Len(events) = 2 /\ events[1].applicant = "applicant" /\ events[1].timestamp = 1
    /\ getLastEligibility("applicant") = <<lastCall.handle, 2>>

\* C5: the only identities holding decrypt rights on a result handle are the
\* caller whose evaluation produced it and the contract; an evaluation by
\* another identity adds no grant on it.
C5_GrantsOnlyToProducer ==
    \A g \in acl :
        /\ g[1] \in 1..Len(cipher)
        /\ Cardinality(Producers(g[1])) = 1
        /\ g[2] = Contract \/ g[2] \in Producers(g[1])

C5_Witness ==
    /\ Len(events) = 2
    /\ events[1].applicant = "applicant" /\ events[2].applicant = "deployer"
    /\ acl = {<<events[1].categoryHandle, "applicant">>, <<events[1].categoryHandle, Contract>>,
              <<events[2].categoryHandle, "deployer">>, <<events[2].categoryHandle, Contract>>}
    /\ events[1].categoryHandle # events[2].categoryHandle

C7_ProofFailureAborts ==
    [][(lastCall'.op = "checkEligibility" /\ lastCall'.failedProof # 0)
          => /\ lastCall'.status = "reverted"
             /\ UNCHANGED <<lastCategory, lastEvaluatedAt, cipher, acl, events>>]_vars

C7_Witness ==
    /\ lastCall.op = "checkEligibility" /\ lastCall.status = "reverted"
    /\ lastCall.failedProof = 4
    /\ lastCall.caller = "applicant"
    /\ lastCategory["applicant"] # ZeroHandle

\* C8: getLastEligibility of an identity that never evaluated successfully is
\* the zero pair and the call succeeds, whatever other identities evaluated.
C8_NeverEvaluatedIsZero ==
    /\ \A id \in Identities \ Evaluated : getLastEligibility(id) = <<ZeroHandle, 0>>
    /\ (lastCall.op = "getLastEligibility" /\ lastCall.account \notin Evaluated)
          => /\ lastCall.status = "ok"
             /\ lastCall.handle = ZeroHandle
             /\ lastCall.timestamp = 0

C8_Witness ==
    /\ lastCall.op = "getLastEligibility" /\ lastCall.account = "deployer"
    /\ lastCall.handle = ZeroHandle /\ lastCall.timestamp = 0
    /\ Evaluated = {"applicant"}
    /\ Len(events) = 2

\* C9: one record per identity: a successful evaluation by an identity makes
\* its record the new <<handle, timestamp>>, the record it replaces is no longer
\* returned, and a record that is set never goes back to the zero pair.
C9_OverwriteNeverCleared ==
    [][\A id \in Identities :
          /\ getLastEligibility(id) # <<ZeroHandle, 0>>
                => getLastEligibility(id)' # <<ZeroHandle, 0>>
          /\ (Len(events') = Len(events) + 1 /\ events'[Len(events')].applicant = id)
                => /\ getLastEligibility(id)' =
                        <<events'[Len(events')].categoryHandle, events'[Len(events')].timestamp>>
                   /\ getLastEligibility(id)' # <<ZeroHandle, 0>>]_vars

C9_Witness ==
    /\ Len(events) = 2
    /\ events[1].applicant = "applicant" /\ events[2].applicant = "applicant"
    /\ events[1].categoryHandle # events[2].categoryHandle
    /\ events[1].timestamp # events[2].timestamp
    /\ getLastEligibility("applicant") = <<events[2].categoryHandle, events[2].timestamp>>

\* C10: an evaluation by one identity leaves the record of every other
\* identity unchanged, and each identity's record is the result of its own
\* most recent evaluation.
C10_RecordsIndependent ==
    /\ [](\A id \in Identities : getLastEligibility(id) = MostRecent(id))
    /\ [][\A a \in Identities :
            (Len(events') = Len(events) + 1 /\ events'[Len(events')].applicant = a)
                => \A b \in Identities \ {a} :
                      /\ lastCategory'[b] = lastCategory[b]
                      /\ lastEvaluatedAt'[b] = lastEvaluatedAt[b]
                      /\ getLastEligibility(b)' = getLastEligibility(b)]_vars

C10_Witness ==
    /\ Len(events) = 2
    /\ events[1].applicant = "deployer" /\ events[2].applicant = "applicant"
    /\ events[1].timestamp = 1 /\ events[2].timestamp = 2
    /\ getLastEligibility("deployer") = <<events[1].categoryHandle, 1>>
    /\ getLastEligibility("applicant") = <<events[2].categoryHandle, 2>>

\* C11: two calls of getLastEligibility(identity) in a row return the same
\* <<handle, timestamp>>, the pair returned is the stored one, and the call
\* changes no contract state.
C11_QueryIdempotent ==
    [][lastCall'.op = "getLastEligibility"
          => /\ UNCHANGED <<lastCategory, lastEvaluatedAt, cipher, acl, events>>
             /\ \A id \in Identities :
                    lastCall'.account = id
                       => <<lastCall'.handle, lastCall'.timestamp>> = getLastEligibility(id)'
             /\ (lastCall.op = "getLastEligibility" /\ lastCall.account = lastCall'.account)
                    => /\ lastCall'.handle = lastCall.handle
                       /\ lastCall'.timestamp = lastCall.timestamp]_vars

C11_Witness ==
    /\ lastCall.op = "getLastEligibility" /\ lastCall.account = "applicant"
    /\ lastCall.handle # ZeroHandle /\ lastCall.timestamp = 1
    /\ now = 2

\* C12: every successful checkEligibility appends exactly one event, whose
\* applicant, handle and timestamp are the caller and the handle and timestamp
\* stored for the caller by that call; nothing else appends an event.
C12_OneEventPerEvaluation ==
    [][/\ (/\ lastCall'.op = "checkEligibility" /\ lastCall'.status = "ok"
           /\ <<lastCall, lastCategory, lastEvaluatedAt, acl, events>>' #
                  <<lastCall, lastCategory, lastEvaluatedAt, acl, events>>)
          => /\ Len(events') = Len(events) + 1
             /\ SubSeq(events', 1, Len(events)) = events
             /\ events'[Len(events')] =
                    [applicant |-> lastCall'.caller,
                     categoryHandle |-> lastCategory'[lastCall'.caller],
                     timestamp |-> lastEvaluatedAt'[lastCall'.caller]]
       /\ events' # events
          => (lastCall'.op = "checkEligibility" /\ lastCall'.status = "ok")]_vars

C12_Witness ==
    /\ lastCall.op = "checkEligibility" /\ lastCall.status = "ok"
    /\ lastCall.caller = "deployer"
    /\ Len(events) = 2
    /\ events[2] = [applicant |-> "deployer", categoryHandle |-> lastCategory["deployer"],
                     timestamp |-> 2]
    /\ events[1].applicant = "applicant"

\* ------------------------------------------------------------------ the page
PhaseRank(phase) ==
    CASE phase = "idle" -> 0 [] phase = "encrypt" -> 1 [] phase = "submit" -> 2
      [] phase = "process" -> 3 [] phase = "decrypt" -> 4 [] phase = "complete" -> 5

\* A step of the running handleSubmit (a continuation after one of its awaits).
SubmitStep == sub.pc # "off" /\ sub'.pc # sub.pc

\* C13: a step of a submission attempt that changes the workflow phase moves
\* it to the next phase of idle, encrypt, submit, process, decrypt, complete,
\* or resets it to idle: no phase is skipped or revisited.
C13_PhaseOnlyForward ==
    [][(SubmitStep /\ ui'.timelineState # ui.timelineState)
          => \/ ui'.timelineState = "idle"
             \/ PhaseRank(ui'.timelineState) = PhaseRank(ui.timelineState) + 1]_vars

\* C14: while a handleSubmit is running, no handleLoadHistory starts and no
\* step of a handleLoadHistory writes the timeline, the result or the messages.
C14_OneAttemptInFlight ==
    [][sub.pc # "off"
          => /\ ~(hist.pc = "off" /\ hist'.pc # "off")
             /\ hist' # hist => ui' = ui]_vars

\* C15: while an attempt is running and the workflow phase is idle, encrypt
\* or submit, the attempt's transaction has not written the caller's record.
C15_NoWriteBeforeConfirming ==
    (sub.pc # "off" /\ ui.timelineState \in {"idle", "encrypt", "submit"})
        => sub.tx # "mined"

\* The signer refused to sign the transaction of the attempt that just ended.
SignatureRejected == sub.pc = "off" /\ sub.thrown \in {ErrRejected, Err4001}

\* C16: when the signer rejects the transaction signature, the attempt ends
\* with the rejection message, the phase idle and isSubmitting false; no
\* transaction was sent and the contract state is unchanged; the handler does
\* not go on to decrypt; and an attempt starts only by a submit of the form.
C16_RejectionEndsAttempt ==
    [][/\ (sub.pc = "send" /\ SignatureRejected')
            => /\ ui'.errorMessage = "Transaction signature rejected. No data was sent."
               /\ ui'.timelineState = "idle"
               /\ ~ui'.isSubmitting
               /\ sub.tx = "none" /\ sub'.tx = "none"
               /\ UNCHANGED <<lastCategory, lastEvaluatedAt, cipher, acl, events>>
       /\ (sub.pc = "off" /\ sub'.pc # "off")
            => /\ ~submitDisabled
               /\ sub'.pc = "encrypt" /\ sub'.tx = "none"
               /\ sub'.numericAge = numericAge(form)
               /\ UNCHANGED <<form, lastCategory, lastEvaluatedAt, cipher, acl, events>>]_vars

\* A second attempt is refused by the signer after a first one has stored a record.
C16_Witness ==
    /\ SignatureRejected
    /\ ui.errorMessage = "Transaction signature rejected. No data was sent."
    /\ ui.timelineState = "idle"
    /\ Len(events) = 1
    /\ lastCategory[Applicant] = 1

\* C17: an error thrown in a running handleSubmit, other than the signer's
\* refusal of the transaction, or in a running handleLoadHistory, ends that
\* run with an error message shown, its busy flag cleared and the workflow
\* phase idle: not an active phase and not complete.
C17_ErrorsEndFailed ==
    [][/\ (sub.pc # "off" /\ sub'.pc = "off" /\ sub'.thrown # NotThrown
              /\ ~(sub.pc = "send" /\ SignatureRejected'))
            => /\ ui'.errorMessage # Null
               /\ ui'.timelineState = "idle"
               /\ ~ui'.isSubmitting
       /\ (hist.pc # "off" /\ hist'.pc = "off" /\ hist'.thrown # NotThrown)
            => /\ ui'.errorMessage # Null
               /\ ui'.timelineState = "idle"
               /\ ~ui'.isFetchingHistory]_vars

\* The plaintext inputs are valid: the age field denotes a whole number in
\* 1..150 and each of the three questions is answered.
ValidPlaintext(f) ==
    /\ WholeInRange(f.age, 1, 150)
    /\ f.hasHistory # Null /\ f.hasChronic # Null /\ f.hasLifestyleRisk # Null

\* C18: a submit of the form with invalid plaintext inputs leaves the phase
\* idle and shows a validation error; handleSubmit returns before it encrypts,
\* asks for a signature or calls the network, so no submission is running
\* and the contract state is unchanged.
C18_InvalidInputRejected ==
    [][(HandleSubmit /\ ~ValidPlaintext(form))
          => /\ ui'.timelineState = "idle"
             /\ ui'.errorMessage # Null
             /\ ~ui'.isSubmitting
             /\ sub'.pc = "off" /\ sub'.tx = "none"
             /\ UNCHANGED <<form, lastCategory, lastEvaluatedAt, cipher, acl, events>>]_vars

\* A form with an age and one question unanswered was submitted.
C18_Witness ==
    /\ form.age = <<"5", "0">>
    /\ form.hasHistory = "true" /\ form.hasChronic = Null /\ form.hasLifestyleRisk = "false"
    /\ ui.errorMessage = "Select Yes or No for each health question."
    /\ ui.timelineState = "idle"
    /\ sub.pc = "off"

\* C19: when handleSubmit goes on to encrypt, the age field denotes a whole
\* number in 1..150, each question is answered true or false, and the age
\* handed to encryptAge is in 1..150, hence an 8-bit unsigned value.
C19_EncryptedAgeInRange ==
    sub.pc = "encrypt"
        => /\ ValidPlaintext(form)
           /\ {form.hasHistory, form.hasChronic, form.hasLifestyleRisk} \subseteq Flags
           /\ sub.numericAge >= 1 /\ sub.numericAge <= 150
           /\ sub.numericAge \in Uint8

\* The largest age accepted is about to be encrypted.
C19_Witness ==
    /\ sub.pc = "encrypt"
    /\ form.age = <<"1", "5", "0">>
    /\ sub.numericAge = 150
    /\ sub.hasHistory /\ ~sub.hasChronic /\ sub.hasLifestyleRisk

\* C20: once the phase is process (the transaction is sent), it stays process
\* until the transaction is mined or reverts; its only successors are decrypt,
\* after the transaction was mined, and idle as the end of the attempt after
\* a revert. Nothing moves it to idle while the attempt waits.
C20_ConfirmingNotCancelled ==
    [][(ui.timelineState = "process" /\ ui'.timelineState # "process")
          => \/ ui'.timelineState = "decrypt" /\ sub.tx = "mined"
             \/ ui'.timelineState = "idle" /\ sub.tx = "reverted" /\ sub'.pc = "off"]_vars

\* A step of the running handleLoadHistory, or its start.
HistoryStep == hist' # hist

\* C21: handleLoadHistory starts with the phase idle; its steps never set the
\* phase encrypt, submit or process; when the stored handle is not zero it
\* decrypts with the phase decrypt and ends with the phase complete and the
\* stored handle and timestamp as the result; when the stored handle is zero
\* it reports that no result is stored, does not decrypt and does not set
\* the phase complete.
C21_ReplayPath ==
    [][HistoryStep
          => /\ (hist.pc = "off") => ui'.timelineState = "idle"
             /\ ui'.timelineState \in {"encrypt", "submit", "process"}
                    => ui'.timelineState = ui.timelineState
             /\ hist'.pc = "decrypt"
                    => /\ ui'.timelineState = "decrypt"
                       /\ hist'.handle # ZeroHandle
                       /\ <<hist'.handle, hist'.timestamp>> = getLastEligibility(Applicant)
             /\ (hist.pc = "decrypt" /\ hist'.thrown = NotThrown)
                    => /\ ui'.timelineState = "complete"
                       /\ ui'.evaluationResult.handle = hist.handle
                       /\ ui'.evaluationResult.timestamp = hist.timestamp
             /\ (hist.pc = "query" /\ hist'.thrown = NotThrown
                    /\ getLastEligibility(Applicant)[1] = ZeroHandle)
                    => /\ hist'.pc = "off"
                       /\ ui'.errorMessage = "No encrypted result stored for this wallet yet."
                       /\ ui'.timelineState # "complete" \/ ui.timelineState = "complete"]_vars

\* C22: a submit of a form that passes the validation starts an attempt in
\* the phase encrypt whatever the phase was (complete, or idle after a failed
\* attempt), with the error and the success message of the attempt before
\* cleared.
C22_SubmitStartsFresh ==
    [][(HandleSubmit /\ validate(form) = Null)
          => /\ ui'.timelineState = "encrypt"
             /\ ui'.isSubmitting
             /\ ui'.errorMessage = Null /\ ui'.successMessage = Null
             /\ sub'.pc = "encrypt" /\ sub'.tx = "none" /\ sub'.thrown = NotThrown]_vars

\* A second submit right after a completed attempt: the result of the first
\* is still displayed and the second attempt is encrypting.
C22_Witness ==
    /\ sub.pc = "encrypt" /\ ui.timelineState = "encrypt"
    /\ ui.evaluationResult.handle = 1 /\ lastCategory[Applicant] = 1
    /\ ui.errorMessage = Null /\ ui.successMessage = Null
    /\ hist.pc = "off"

\* C23: a change of the age field or a click on a Yes/No button clears the
\* displayed result and the success message and sets the phase idle.
C23_InputChangeClears ==
    [][(SetAge \/ SetFlag)
          => /\ ui'.evaluationResult = NoResult
             /\ ui'.successMessage = Null
             /\ ui'.timelineState = "idle"]_vars

\* After a completed attempt an answer was changed: the record is stored,
\* nothing runs, and no result is displayed for the changed form.
C23_Witness ==
    /\ Len(events) = 1 /\ lastCategory[Applicant] = 1 /\ cipher[1] = CATEGORY_ELIGIBLE
    /\ form = [age |-> <<"5", "0">>, hasHistory |-> "true", hasChronic |-> "false",
               hasLifestyleRisk |-> "false"]
    /\ sub.pc = "off" /\ hist.pc = "off" /\ sub.thrown = NotThrown
    /\ ui.evaluationResult = NoResult /\ ui.successMessage = Null
    /\ ui.errorMessage = Null /\ ui.timelineState = "idle"

\* The inputs a running handleSubmit encrypted are the inputs of the form f.
EncryptedFrom(f) ==
    /\ sub.numericAge = numericAge(f)
    /\ f.hasHistory = (IF sub.hasHistory THEN "true" ELSE "false")
    /\ f.hasChronic = (IF sub.hasChronic THEN "true" ELSE "false")
    /\ f.hasLifestyleRisk = (IF sub.hasLifestyleRisk THEN "true" ELSE "false")

\* C24: when handleSubmit displays its result (the result set and the phase
\* complete), the inputs of the form are the inputs it encrypted for that result.
C24_ResultMatchesForm ==
    [][(sub.pc = "decrypt" /\ sub'.pc = "off" /\ sub'.thrown = NotThrown)
          => /\ ui'.evaluationResult # NoResult /\ ui'.timelineState = "complete"
             /\ EncryptedFrom(form')]_vars

\* ------------------------------------------------ the wallet and useFhevm
\* C25: with the wallet disconnected and useFhevm not idle, the effect resets
\* the hook (status idle, instance null, error empty) and clears the result;
\* and once the hook is idle and no result is displayed, no result appears
\* while the wallet stays disconnected, also when a submission was pending
\* at the disconnect.
C25_DisconnectClears ==
    [][/\ (~walletReady /\ fhe.status # "idle" /\ fhe' # fhe /\ fhe'.pending = fhe.pending)
            => /\ fhe'.status = "idle" /\ fhe'.instance = Null /\ fhe'.error = ""
               /\ ui'.evaluationResult = NoResult
       /\ (~walletReady /\ ~walletReady' /\ fhe.status = "idle"
              /\ ui.evaluationResult = NoResult)
            => ui'.evaluationResult = NoResult]_vars


\* A submission has ended: isSubmitting is false and the timeline is complete
\* with a result, or idle with an error message.
SubmissionEnded ==
    /\ sub.pc = "off"
    /\ ~ui.isSubmitting
    /\ \/ ui.timelineState = "complete" /\ ui.evaluationResult # NoResult
       \/ ui.timelineState = "idle" /\ ui.errorMessage # Null

\* C26: provided every awaited call settles, every submission that entered
\* Encrypting ends, and at its end isSubmitting is false and the timeline is
\* complete with a result or idle with an error message.
C26_SubmissionTerminates ==
    /\ [][(sub.pc # "off" /\ sub'.pc = "off") => SubmissionEnded']_vars
    /\ (sub.pc # "off") ~> SubmissionEnded

C26_Witness ==
    /\ SubmissionEnded
    /\ sub.thrown = ErrReverted
    /\ ui.timelineState = "idle"
    /\ ui.errorMessage = ErrReverted.message


\* The contract has granted `who` (and itself) access to `handle`, in an
\* evaluation `who` submitted.
GrantedTo(handle, who) ==
    /\ handle # ZeroHandle
    /\ <<handle, who>> \in acl
    /\ <<handle, Contract>> \in acl
    /\ \E i \in 1..Len(events) :
           events[i].applicant = who /\ events[i].categoryHandle = handle

\* C27: handleSubmit is at its decrypt only with the transaction mined (not
\* pending, not reverted) and on the handle that transaction granted to the
\* connected account; handleLoadHistory is at its decrypt only on a non-zero
\* handle of the connected account's own record, granted to that account.
C27_DecryptOnlyGranted ==
    /\ sub.pc = "decrypt" => sub.tx = "mined" /\ GrantedTo(sub.handle, Applicant)
    /\ hist.pc = "decrypt" => GrantedTo(hist.handle, Applicant)

C27_Witness ==
    /\ sub.pc = "decrypt"
    /\ hist.pc = "decrypt"
    /\ hist.handle # sub.handle


\* C28: for every identity, getLastEligibility returns a zero handle exactly
\* when it returns a zero timestamp: the pair is the all-zero sentinel or a
\* non-zero handle with a non-zero timestamp.
C28_SentinelIsAllZero ==
    \A account \in Identities :
        getLastEligibility(account)[1] = ZeroHandle <=> getLastEligibility(account)[2] = 0

C28_Witness ==
    /\ getLastEligibility("applicant")[1] # ZeroHandle
    /\ getLastEligibility("applicant")[2] # 0
    /\ getLastEligibility("deployer") = <<ZeroHandle, 0>>


\* C29: a call of initialize() gives status 'loading'; its completion gives
\* 'ready' with a non-null instance or 'error' with the error text; while the
\* hook is idle with a null instance it stays so in every step that does not
\* call initialize(), also when an initialize() called before the reset
\* completes; isInitialized is true exactly when status is 'ready'.
C29_HookLifecycle ==
    [][/\ fhe'.pending > fhe.pending => fhe'.status = "loading" /\ fhe'.error = ""
       /\ (fhe'.pending < fhe.pending /\ fhe.status = "loading")
             => \/ fhe'.status = "ready" /\ fhe'.instance # Null
                \/ fhe'.status = "error" /\ fhe'.error # ""
       /\ (fhe.status = "idle" /\ fhe.instance = Null /\ fhe'.pending <= fhe.pending)
             => fhe'.status = "idle" /\ fhe'.instance = Null
       /\ isInitialized' <=> fhe'.status = "ready"]_vars


\* A connect attempt of the modal settles in this step.
AttemptSettles == wallet.attempt # "none" /\ wallet'.attempt = "none"

\* C30: isConnecting is true exactly while a connect attempt is pending; no
\* attempt starts while one is pending; and when an attempt settles with the
\* modal open, the modal closes if the wallet is connected, and otherwise
\* stays open and shows the error.
C30_ModalClosesOnSuccessOnly ==
    [][/\ wallet'.isConnecting <=> wallet'.attempt # "none"
       /\ (wallet.attempt # "none" /\ wallet'.attempt # wallet.attempt) => AttemptSettles
       /\ (AttemptSettles /\ wallet.showWalletModal)
             => IF wallet'.isConnected
                THEN ~wallet'.showWalletModal
                ELSE wallet'.showWalletModal /\ wallet'.error # Null]_vars

====
